---------------------------- MODULE Spec2Model ----------------------------
(***************************************************************************)
(* columbia.git: on-disk mirrors of remote git repositories.               *)
(*                                                                         *)
(* The state is the directory tree below the working directory, the       *)
(* Repository object the caller holds, and a record of what the most      *)
(* recent call did.  Operators named after the methods of                  *)
(* src/columbia/git.py compute what each method does to the tree; git     *)
(* itself is an external process, modelled by what it writes below the    *)
(* clone directory and by its exit status.                                 *)
(*                                                                         *)
(* Spec and SpecWorktrees are one caller making one call after another;    *)
(* SpecConcurrent is several processes on one location, a system call or   *)
(* git command at a time; SpecBranches is branches() on the outputs of     *)
(* "git ls-remote --heads".                                                *)
(***************************************************************************)
EXTENDS Integers, Sequences, FiniteSets, TLC

VARIABLES
    fs,     \* the tree below the working directory: path -> "dir" or file content
    repo,   \* the Repository object in the caller's hand, or NoRepo
    last,   \* what the most recent call did (its outcome, as the caller sees it)
    procs,  \* the processes that work on one location at the same time
    out     \* an output of "git ls-remote --heads" and what branches() makes of it

vars == <<fs, repo, last, procs, out>>

-----------------------------------------------------------------------------
(* Bounds and inputs *)

NumUrls == 1
NumBranches == 2
NumProcs == 2       \* processes that work on one location at the same time
MaxLines == 2       \* lines of an ls-remote output
MaxLineLen == 4     \* pieces of one line

\* Repository URLs the caller uses.  The first two hash into the same shard
\* directory ("eb"), the third into another one.
UrlTable ==
    << "https://github.com/jpaidoussi/columbia-git.git",
       "https://github.com/jpaidoussi/repo-335.git",
       "https://github.com/jpaidoussi/columbia.git" >>

\* Branches that exist on origin; the first is origin's default branch.
BranchTable == << "master", "feature", "dev" >>

Urls == { UrlTable[i] : i \in 1..NumUrls }
Branches == { BranchTable[i] : i \in 1..NumBranches }
DefaultBranch == BranchTable[1]

\* Tags that exist on origin: references that are not branches.
Tags == { "v1.0" }

\* What a failing git process writes to its standard error stream.
Diagnostic == "fatal: repository not found"

NoneVal == "None"
NoRepo == [url |-> NoneVal]
NoOutput == [op |-> "none"]

-----------------------------------------------------------------------------
(* hashlib.md5(s.encode("utf-8")).hexdigest(), tabulated for the strings   *)
(* above; head and tail are the slices [:2] and [2:] of the digest.        *)

Md5Table ==
    [ s \in (Urls \cup Branches) |->
        CASE s = "https://github.com/jpaidoussi/columbia-git.git" ->
                [hex  |-> "ebabd769f1c701fe1d60a58a8d8c4d76",
                 head |-> "eb", tail |-> "abd769f1c701fe1d60a58a8d8c4d76"]
          [] s = "https://github.com/jpaidoussi/repo-335.git" ->
                [hex  |-> "ebae2808e26ee08b91c490336f09919e",
                 head |-> "eb", tail |-> "ae2808e26ee08b91c490336f09919e"]
          [] s = "https://github.com/jpaidoussi/columbia.git" ->
                [hex  |-> "f340a2b5baa67c651a6c8bb0ae5c797f",
                 head |-> "f3", tail |-> "40a2b5baa67c651a6c8bb0ae5c797f"]
          [] s = "master" ->
                [hex  |-> "eb0a191797624dd3a48fa681d3061212",
                 head |-> "eb", tail |-> "0a191797624dd3a48fa681d3061212"]
          [] s = "feature" ->
                [hex  |-> "518a4861e5be74863a6b65010bde3986",
                 head |-> "51", tail |-> "8a4861e5be74863a6b65010bde3986"]
          [] s = "dev" ->
                [hex  |-> "e77989ed21758e78331b20e477fc5582",
                 head |-> "e7", tail |-> "7989ed21758e78331b20e477fc5582"] ]

-----------------------------------------------------------------------------
(* Paths are sequences of names relative to the working directory; << >>   *)
(* is the working directory itself.                                        *)

IsPrefix(p, q) == Len(p) <= Len(q) /\ SubSeq(q, 1, Len(p)) = p

Parent(p) == SubSeq(p, 1, Len(p) - 1)

PathExists(f, p) == p \in DOMAIN f

Children(f, p) == { q \in DOMAIN f : Len(q) = Len(p) + 1 /\ IsPrefix(p, q) }

IsEmptyDir(f, p) == PathExists(f, p) /\ f[p] = "dir" /\ Children(f, p) = {}

\* Path.mkdir(parents=True, exist_ok=True)
MkdirParents(f, p) ==
    [ q \in DOMAIN f \cup { SubSeq(p, 1, i) : i \in 0..Len(p) } |->
        IF q \in DOMAIN f THEN f[q] ELSE "dir" ]

\* One system call of Path.mkdir(parents=True, exist_ok=True): the first
\* missing directory on the way to p is made; with p there already,
\* exist_ok=True makes the call return quietly.
PathMkdirStepNoExistOk(f, p) ==
    IF PathExists(f, p)
    THEN [ fs |-> f, done |-> TRUE, raised |-> "FileExistsError" ]
    ELSE LET d == CHOOSE q \in { SubSeq(p, 1, i) : i \in 1..Len(p) } :
                      ~PathExists(f, q) /\ PathExists(f, Parent(q))
         IN  [ fs |-> [ q \in DOMAIN f \cup {d} |->
                          IF q \in DOMAIN f THEN f[q] ELSE "dir" ],
               done |-> (d = p), raised |-> "none" ]

PathMkdirStep(f, p) ==
    IF PathExists(f, p)
    THEN [ fs |-> f, done |-> TRUE, raised |-> "none" ]
    ELSE LET d == CHOOSE q \in { SubSeq(p, 1, i) : i \in 1..Len(p) } :
                      ~PathExists(f, q) /\ PathExists(f, Parent(q))
         IN  [ fs |-> [ q \in DOMAIN f \cup {d} |->
                          IF q \in DOMAIN f THEN f[q] ELSE "dir" ],
               done |-> (d = p), raised |-> "none" ]

\* shutil.rmtree(p) on an existing p
Rmtree(f, p) == [ q \in { x \in DOMAIN f : ~IsPrefix(p, x) } |-> f[q] ]

\* Path.rmdir(): succeeds on an existing empty directory only
RmdirOk(f, p) == IsEmptyDir(f, p)
Rmdir(f, p) == [ q \in DOMAIN f \ {p} |-> f[q] ]

\* one more entry (a file with content c, or "dir"), its parents made
WriteEntry(f, p, c) ==
    [ q \in DOMAIN f \cup { SubSeq(p, 1, i) : i \in 0..Len(p) } |->
        IF q = p THEN c ELSE IF q \in DOMAIN f THEN f[q] ELSE "dir" ]

-----------------------------------------------------------------------------
(* RepositoryLocation *)

\* repo_url_hash_path_builder
RepoUrlHashPathBuilder(url) == << Md5Table[url].head, Md5Table[url].tail >>

\* branch_hash_worktree_path_builder
BranchHashWorktreePathBuilder(branch) == Md5Table[branch].hex

\* RepositoryLocation.__init__
Location(url) ==
    [ url       |-> url,
      root_path |-> RepoUrlHashPathBuilder(url),
      path      |-> Append(RepoUrlHashPathBuilder(url), Md5Table[url].hex) ]

\* RepositoryLocation.exists
LocExists(f, loc) == PathExists(f, loc.path)

\* RepositoryLocation.create
LocCreateAlwaysTrue(f, loc) ==
    [ fs |-> MkdirParents(f, loc.path), ret |-> TRUE ]

LocCreate(f, loc) ==
    IF LocExists(f, loc)
    THEN [ fs |-> f, ret |-> FALSE ]
    ELSE [ fs |-> MkdirParents(f, loc.path), ret |-> TRUE ]

\* RepositoryLocation.remove
LocRemoveParentOnly(f, loc) ==
    IF RmdirOk(f, Parent(loc.path))
    THEN [ fs |-> Rmdir(f, Parent(loc.path)), raised |-> "none" ]
    ELSE [ fs |-> f, raised |-> "none" ]

LocRemove(f, loc) ==
    IF ~PathExists(f, loc.root_path)
    THEN [ fs |-> f, raised |-> "OSError" ]
    ELSE LET g == Rmtree(f, loc.root_path)
         IN  IF RmdirOk(g, Parent(loc.path))
             THEN [ fs |-> Rmdir(g, Parent(loc.path)), raised |-> "none" ]
             ELSE [ fs |-> g, raised |-> "none" ]

\* RepositoryLocation.worktree_path
WorktreePath(loc, branch) ==
    Append(loc.root_path, BranchHashWorktreePathBuilder(branch))

-----------------------------------------------------------------------------
(* The git process, as far as the methods depend on it.  A clone holds     *)
(* its metadata in <path>/.git (non-bare) or directly in <path> (bare);    *)
(* HEAD holds the name of the checked-out reference.                       *)

\* the directory git finds its metadata in, looking from cwd upwards
GitDirCandidates(f, cwd) ==
    { d \in { SubSeq(cwd, 1, i) : i \in 0..Len(cwd) } :
        \/ PathExists(f, Append(d, ".git"))
        \/ PathExists(f, Append(d, "HEAD")) }

GitDirFound(f, cwd) == PathExists(f, cwd) /\ GitDirCandidates(f, cwd) # {}

\* the metadata directory of the clone at p
GitDir(f, p) ==
    IF PathExists(f, Append(p, ".git")) THEN Append(p, ".git") ELSE p

IsBareClone(f, p) ==
    PathExists(f, Append(p, "HEAD")) /\ ~PathExists(f, Append(p, ".git"))

BranchRef(f, p, b) == GitDir(f, p) \o << "refs", "heads", b >>

WorktreeAdmin(f, p, wt) == GitDir(f, p) \o << "worktrees", wt[Len(wt)] >>

\* what a successful "git clone [--bare] url path" leaves in the empty path
RECURSIVE WriteRefs(_, _, _)
WriteRefs(f, gitdir, bs) ==
    IF bs = {} THEN f
    ELSE LET b == CHOOSE x \in bs : TRUE
         IN  WriteRefs(WriteEntry(f, gitdir \o << "refs", "heads", b >>, "ref"),
                       gitdir, bs \ {b})

GitCloneInto(f, p, bare) ==
    IF bare
    THEN WriteRefs(WriteEntry(f, Append(p, "HEAD"), DefaultBranch), p, Branches)
    ELSE WriteRefs(WriteEntry(f, p \o << ".git", "HEAD" >>, DefaultBranch),
                   Append(p, ".git"), {DefaultBranch})

\* exit status of "git clone": it refuses a destination that is not empty
GitCloneStatus(f, p, remoteOk) ==
    IF remoteOk /\ IsEmptyDir(f, p) THEN 0 ELSE 128

\* exit status of "git rev-parse --git-dir" and of the other commands that
\* need a repository around cwd
GitRepoStatus(f, cwd) == IF GitDirFound(f, cwd) THEN 0 ELSE 128

\* exit status of a command that needs a checked-out work tree in cwd
GitWorkTreeStatus(f, cwd, ok) ==
    IF ok /\ GitDirFound(f, cwd) /\ ~IsBareClone(f, cwd) THEN 0 ELSE 1

\* the references checked out in the linked worktrees of the clone at p
GitWorktreeHeads(f, p) ==
    { f[a] : a \in { x \in DOMAIN f :
                       /\ Len(x) = Len(GitDir(f, p)) + 3
                       /\ IsPrefix(Append(GitDir(f, p), "worktrees"), x)
                       /\ x[Len(x)] = "HEAD" } }

\* exit status of "git checkout <reference>": git refuses a branch that is
\* checked out in a linked worktree
GitCheckoutStatus(f, p, reference, ok) ==
    IF /\ GitWorkTreeStatus(f, p, ok) = 0
       /\ reference \in Branches \cup Tags
       /\ reference \notin GitWorktreeHeads(f, p)
    THEN 0 ELSE 1

\* what a successful "git checkout <reference>" leaves: HEAD names the
\* reference; a branch of origin gets its local branch, anything else
\* leaves HEAD detached
GitCheckout(f, p, reference) ==
    LET g == WriteEntry(f, Append(GitDir(f, p), "HEAD"), reference)
    IN  IF reference \in Branches
        THEN WriteEntry(g, BranchRef(f, p, reference), "ref")
        ELSE g

\* exit status of "git pull": there is nothing to pull on a detached HEAD
GitPullStatus(f, p, ok) ==
    IF /\ GitWorkTreeStatus(f, p, ok) = 0
       /\ f[Append(GitDir(f, p), "HEAD")] \in Branches
    THEN 0 ELSE 1

-----------------------------------------------------------------------------
(* Repository.  Every method is an operator from the tree f and the        *)
(* Repository r = [url, bare, binaryOk, created] to what the call leaves:  *)
(* the tree, the exception it ends with, that exception's message, the     *)
(* outcome of the last git command it issued ("zero", "nonzero", "notrun", *)
(* or "none" when it issued none), its return value where it is a boolean, *)
(* the created flag, whether location.remove() was called, and the git    *)
(* commands and filesystem calls it made, in order.                        *)

Outcome(f, raised, status) ==
    [ fs |-> f, raised |-> raised, message |-> NoneVal, status |-> status,
      ret |-> FALSE, created |-> FALSE, removed |-> FALSE, ev |-> << >> ]

\* one entry of that order: the command or call, how it ended, and whether
\* the worktree directory the method is about existed when it was made
Event(cmd, status, wtExists) ==
    [ cmd |-> cmd, status |-> status, wtExists |-> wtExists ]

\* what a git process that exits with status does on its output streams
GitProcess(status) ==
    [ status |-> status,
      stdout |-> "",
      stderr |-> IF status # 0 THEN Diagnostic ELSE "" ]

\* Repository._git: subprocess.check_output(args, cwd, universal_newlines).
\* The process cannot be started when the binary or cwd is missing
\* (OSError).  check_output pipes standard output only, so the
\* CalledProcessError of a nonzero exit has the process's output and no
\* stderr (None).
Git(binaryOk, f, cwd, status) ==
    LET proc == GitProcess(status)
    IN  IF ~binaryOk \/ ~PathExists(f, cwd)
        THEN [ raised |-> "OSError", status |-> "notrun", stderr |-> NoneVal ]
        ELSE IF proc.status # 0
        THEN [ raised |-> "CalledProcessError", status |-> "nonzero",
               output |-> proc.stdout, stderr |-> NoneVal ]
        ELSE [ raised |-> "none", status |-> "zero", output |-> proc.stdout ]

\* Repository.ready
ReadyProbeErrorIgnored(f, r) ==
    LET loc == Location(r.url)
    IN  IF ~LocExists(f, loc)
        THEN [ raised |-> "none", value |-> FALSE ]
        ELSE IF r.bare
        THEN LET g == Git(r.binaryOk, f, loc.path, GitRepoStatus(f, loc.path))
             IN  IF g.raised = "OSError"
                 THEN [ raised |-> "OSError", value |-> FALSE ]
                 ELSE [ raised |-> "none", value |-> TRUE ]
        ELSE IF ~PathExists(f, Append(loc.path, ".git"))
        THEN [ raised |-> "none", value |-> FALSE ]
        ELSE [ raised |-> "none", value |-> TRUE ]

Ready(f, r) ==
    LET loc == Location(r.url)
    IN  IF ~LocExists(f, loc)
        THEN [ raised |-> "none", value |-> FALSE ]
        ELSE IF r.bare
        THEN LET g == Git(r.binaryOk, f, loc.path, GitRepoStatus(f, loc.path))
             IN  IF g.raised = "OSError"
                 THEN [ raised |-> "OSError", value |-> FALSE ]
                 ELSE IF g.raised = "CalledProcessError"
                 THEN [ raised |-> "none", value |-> FALSE ]
                 ELSE [ raised |-> "none", value |-> TRUE ]
        ELSE IF ~PathExists(f, Append(loc.path, ".git"))
        THEN [ raised |-> "none", value |-> FALSE ]
        ELSE [ raised |-> "none", value |-> TRUE ]

IsReady(f, r) == Ready(f, r).raised = "none" /\ Ready(f, r).value

\* the entries of location.create() and location.remove() in a call's order
CreateEvent(c) == Event("create", IF c.ret THEN "True" ELSE "False", FALSE)

RemoveEvent(rm) ==
    Event("remove", IF rm.raised = "none" THEN "ok" ELSE "error", FALSE)

\* Repository.clone(bare).  remoteOk says whether git can fetch the URL.
RepoCloneRollbackAlways(f, r, bare, remoteOk) ==
    LET loc == Location(r.url)
        c   == LocCreate(f, loc)
        g   == Git(r.binaryOk, c.fs, loc.path,
                   GitCloneStatus(c.fs, loc.path, remoteOk))
    IN  IF g.raised = "CalledProcessError"
        THEN LET rm == LocRemove(c.fs, loc)
             IN  [ Outcome(rm.fs, IF rm.raised = "none" THEN "RepositoryError"
                                  ELSE rm.raised, g.status)
                     EXCEPT !.created = c.ret, !.removed = TRUE,
                            !.message = g.stderr,
                            !.ev = << CreateEvent(c), Event("clone", g.status, FALSE),
                                      RemoveEvent(rm) >> ]
        ELSE IF g.raised = "OSError"
        THEN [ Outcome(c.fs, "OSError", g.status)
                 EXCEPT !.created = c.ret,
                        !.ev = << CreateEvent(c), Event("clone", g.status, FALSE) >> ]
        ELSE [ Outcome(GitCloneInto(c.fs, loc.path, bare), "none", g.status)
                 EXCEPT !.created = c.ret,
                        !.ev = << CreateEvent(c), Event("clone", g.status, FALSE) >> ]

RepoCloneRollbackNever(f, r, bare, remoteOk) ==
    LET loc == Location(r.url)
        c   == LocCreate(f, loc)
        g   == Git(r.binaryOk, c.fs, loc.path,
                   GitCloneStatus(c.fs, loc.path, remoteOk))
    IN  IF g.raised = "CalledProcessError"
        THEN [ Outcome(c.fs, "RepositoryError", g.status)
                 EXCEPT !.created = c.ret, !.message = g.stderr,
                        !.ev = << CreateEvent(c), Event("clone", g.status, FALSE) >> ]
        ELSE IF g.raised = "OSError"
        THEN [ Outcome(c.fs, "OSError", g.status)
                 EXCEPT !.created = c.ret,
                        !.ev = << CreateEvent(c), Event("clone", g.status, FALSE) >> ]
        ELSE [ Outcome(GitCloneInto(c.fs, loc.path, bare), "none", g.status)
                 EXCEPT !.created = c.ret,
                        !.ev = << CreateEvent(c), Event("clone", g.status, FALSE) >> ]

RepoCloneCreateLate(f, r, bare, remoteOk) ==
    LET loc == Location(r.url)
        g   == Git(r.binaryOk, f, loc.path, GitCloneStatus(f, loc.path, remoteOk))
        c   == LocCreate(f, loc)
    IN  IF g.raised = "CalledProcessError"
        THEN [ Outcome(f, "RepositoryError", g.status)
                 EXCEPT !.message = g.stderr,
                        !.ev = << Event("clone", g.status, FALSE) >> ]
        ELSE IF g.raised = "OSError"
        THEN [ Outcome(f, "OSError", g.status)
                 EXCEPT !.ev = << Event("clone", g.status, FALSE) >> ]
        ELSE [ Outcome(GitCloneInto(f, loc.path, bare), "none", g.status)
                 EXCEPT !.created = c.ret,
                        !.ev = << Event("clone", g.status, FALSE), CreateEvent(c) >> ]

RepoClone(f, r, bare, remoteOk) ==
    LET loc == Location(r.url)
        c   == LocCreate(f, loc)
        g   == Git(r.binaryOk, c.fs, loc.path,
                   GitCloneStatus(c.fs, loc.path, remoteOk))
    IN  IF g.raised = "CalledProcessError"
        THEN IF c.ret
             THEN LET rm == LocRemove(c.fs, loc)
                  IN  [ Outcome(rm.fs, IF rm.raised = "none"
                                       THEN "RepositoryError"
                                       ELSE rm.raised, g.status)
                          EXCEPT !.created = c.ret, !.removed = TRUE,
                                 !.message = g.stderr,
                                 !.ev = << CreateEvent(c),
                                           Event("clone", g.status, FALSE),
                                           RemoveEvent(rm) >> ]
             ELSE [ Outcome(c.fs, "RepositoryError", g.status)
                      EXCEPT !.created = c.ret, !.message = g.stderr,
                             !.ev = << CreateEvent(c),
                                       Event("clone", g.status, FALSE) >> ]
        ELSE IF g.raised = "OSError"
        THEN [ Outcome(c.fs, "OSError", g.status)
                 EXCEPT !.created = c.ret,
                        !.ev = << CreateEvent(c), Event("clone", g.status, FALSE) >> ]
        ELSE [ Outcome(GitCloneInto(c.fs, loc.path, bare), "none", g.status)
                 EXCEPT !.created = c.ret,
                        !.ev = << CreateEvent(c), Event("clone", g.status, FALSE) >> ]

\* the command the ready property issues: the rev-parse probe of a bare
\* repository whose path exists
ReadyEvents(f, r) ==
    LET loc == Location(r.url)
    IN  IF LocExists(f, loc) /\ r.bare
        THEN << Event("rev-parse",
                      Git(r.binaryOk, f, loc.path,
                          GitRepoStatus(f, loc.path)).status, FALSE) >>
        ELSE << >>

\* Repository.__init__
RepoInit(f, r, clone, remoteOk) ==
    LET rd == Ready(f, r)
    IN  IF rd.raised # "none"
        THEN [ Outcome(f, rd.raised, "notrun") EXCEPT !.ev = ReadyEvents(f, r) ]
        ELSE IF ~rd.value /\ clone
        THEN LET o == RepoClone(f, r, r.bare, remoteOk)
             IN  [ o EXCEPT !.ev = ReadyEvents(f, r) \o o.ev ]
        ELSE [ Outcome(f, "none", "none") EXCEPT !.ev = ReadyEvents(f, r) ]

\* setup_repository
SetupRepositoryOutcome(f, url, binaryOk, bare, clone, remoteOk) ==
    RepoInit(f, [ url |-> url, bare |-> bare, binaryOk |-> binaryOk,
                  created |-> FALSE ], clone, remoteOk)

\* Repository._checkout, Repository._pull, Repository.update_to
RepoUpdateToPullAnyway(f, r, reference, checkoutOk, pullOk) ==
    LET p  == Location(r.url).path
        co == Git(r.binaryOk, f, p, GitCheckoutStatus(f, p, reference, checkoutOk))
        g  == IF co.raised = "none" THEN GitCheckout(f, p, reference) ELSE f
        pl == Git(r.binaryOk, g, p, GitPullStatus(g, p, pullOk))
    IN  [ Outcome(g, IF co.raised # "none" THEN co.raised ELSE pl.raised,
                  pl.status)
            EXCEPT !.ev = << Event("checkout", co.status, FALSE),
                             Event("pull", pl.status, FALSE) >> ]

RepoUpdateTo(f, r, reference, checkoutOk, pullOk) ==
    LET p  == Location(r.url).path
        co == Git(r.binaryOk, f, p, GitCheckoutStatus(f, p, reference, checkoutOk))
    IN  IF co.raised # "none"
        THEN [ Outcome(f, co.raised, co.status)
                 EXCEPT !.ev = << Event("checkout", co.status, FALSE) >> ]
        ELSE LET g  == GitCheckout(f, p, reference)
                 pl == Git(r.binaryOk, g, p, GitPullStatus(g, p, pullOk))
             IN  [ Outcome(g, pl.raised, pl.status)
                     EXCEPT !.ev = << Event("checkout", co.status, FALSE),
                                      Event("pull", pl.status, FALSE) >> ]

\* Repository.export: the destination lies outside the working directory
RepoExport(f, r, ok) ==
    LET p == Location(r.url).path
        g == Git(r.binaryOk, f, p, GitWorkTreeStatus(f, p, ok))
    IN  [ Outcome(f, g.raised, g.status)
            EXCEPT !.ev = << Event("checkout-index", g.status, FALSE) >> ]

\* Repository._hard_reset, Repository._remove_target_location, Repository.clean
RepoClean(f, r, thorough, ok) ==
    IF thorough
    THEN LET rm == LocRemove(f, Location(r.url))
         IN  [ Outcome(rm.fs, rm.raised, "none")
                 EXCEPT !.removed = TRUE, !.ev = << RemoveEvent(rm) >> ]
    ELSE LET p == Location(r.url).path
             g == Git(r.binaryOk, f, p, GitWorkTreeStatus(f, p, ok))
         IN  [ Outcome(f, g.raised, g.status)
                 EXCEPT !.ev = << Event("reset", g.status, FALSE) >> ]

\* exit status of "git worktree add -b b <wt> origin/b": origin/b must exist
\* (a non-bare clone of an origin that has b), b must not exist locally yet
\* and <wt> must be absent or empty
GitWorktreeAddStatus(f, p, wt, b) ==
    IF /\ GitDirFound(f, p) /\ ~IsBareClone(f, p)
       /\ b \in Branches
       /\ ~PathExists(f, BranchRef(f, p, b))
       /\ (PathExists(f, wt) => IsEmptyDir(f, wt))
    THEN 0 ELSE 128

\* what a successful "git worktree add" leaves: the worktree, its record
\* with the branch it has checked out, and the new local branch
GitWorktreeAdd(f, p, wt, b) ==
    WriteEntry(
        WriteEntry(WriteEntry(f, Append(wt, ".git"), "gitdir"),
                   Append(WorktreeAdmin(f, p, wt), "HEAD"), b),
        BranchRef(f, p, b), "ref")

\* what "git worktree prune" leaves: the records of worktrees whose
\* directory is gone are dropped
GitWorktreePrune(f, loc) ==
    LET admin == Append(GitDir(f, loc.path), "worktrees")
        stale == { a \in DOMAIN f :
                     /\ Len(a) = Len(admin) + 1
                     /\ IsPrefix(admin, a)
                     /\ ~PathExists(f, Append(loc.root_path, a[Len(a)])) }
    IN  [ q \in { x \in DOMAIN f : \A a \in stale : ~IsPrefix(a, x) } |-> f[q] ]

\* exit status of "git branch -d b": b must exist, be merged and not be the
\* branch checked out in the clone
GitBranchDeleteStatus(f, p, b, merged) ==
    IF /\ GitDirFound(f, p)
       /\ PathExists(f, BranchRef(f, p, b))
       /\ (IsBareClone(f, p) \/ f[Append(GitDir(f, p), "HEAD")] # b)
       /\ merged
    THEN 0 ELSE 1

\* Repository.latest_commit
RepoLatestCommit(f, r, cwd) ==
    LET g == Git(r.binaryOk, f, cwd, GitRepoStatus(f, cwd))
    IN  [ Outcome(f, g.raised, g.status)
            EXCEPT !.ev = << Event("rev-parse", g.status, PathExists(f, cwd)) >> ]

\* Repository.add_worktree
RepoAddWorktree(f, r, branch_name) ==
    LET loc == Location(r.url)
        wt  == WorktreePath(loc, branch_name)
        g   == Git(r.binaryOk, f, loc.path,
                   GitWorktreeAddStatus(f, loc.path, wt, branch_name))
        add == Event("worktree add", g.status, PathExists(f, wt))
    IN  IF g.raised # "none"
        THEN [ Outcome(f, g.raised, g.status) EXCEPT !.ev = << add >> ]
        ELSE LET o == RepoLatestCommit(GitWorktreeAdd(f, loc.path, wt, branch_name),
                                       r, wt)
             IN  [ o EXCEPT !.ev = << add >> \o o.ev ]

\* Repository.remove_worktree
RepoRemoveWorktreePruneFirst(f, r, branch_name, merged) ==
    LET loc == Location(r.url)
        wt  == WorktreePath(loc, branch_name)
        pr  == Git(r.binaryOk, f, loc.path, GitRepoStatus(f, loc.path))
        e1  == Event("worktree prune", pr.status, PathExists(f, wt))
    IN  IF pr.raised # "none"
        THEN [ Outcome(f, pr.raised, pr.status) EXCEPT !.ev = << e1 >> ]
        ELSE LET f1 == GitWorktreePrune(f, loc)
             IN  IF ~PathExists(f1, wt)
                 THEN [ Outcome(f1, "OSError", "none")
                          EXCEPT !.ev = << e1, Event("rmtree", "error", FALSE) >> ]
                 ELSE LET f2 == Rmtree(f1, wt)
                          e2 == Event("rmtree", "ok", TRUE)
                          br == Git(r.binaryOk, f2, loc.path,
                                    GitBranchDeleteStatus(f2, loc.path,
                                                          branch_name, merged))
                          e3 == Event("branch -d", br.status, FALSE)
                      IN  IF br.raised # "none"
                          THEN [ Outcome(f2, br.raised, br.status)
                                   EXCEPT !.ev = << e1, e2, e3 >> ]
                          ELSE [ Outcome(Rmtree(f2, BranchRef(f2, loc.path,
                                                              branch_name)),
                                         "none", br.status)
                                   EXCEPT !.ev = << e1, e2, e3 >> ]

RepoRemoveWorktree(f, r, branch_name, merged) ==
    LET loc == Location(r.url)
        wt  == WorktreePath(loc, branch_name)
    IN  IF ~PathExists(f, wt)
        THEN [ Outcome(f, "OSError", "none")
                 EXCEPT !.ev = << Event("rmtree", "error", FALSE) >> ]
        ELSE LET f1 == Rmtree(f, wt)
                 e1 == Event("rmtree", "ok", TRUE)
                 pr == Git(r.binaryOk, f1, loc.path, GitRepoStatus(f1, loc.path))
                 e2 == Event("worktree prune", pr.status, PathExists(f1, wt))
             IN  IF pr.raised # "none"
                 THEN [ Outcome(f1, pr.raised, pr.status) EXCEPT !.ev = << e1, e2 >> ]
                 ELSE LET f2 == GitWorktreePrune(f1, loc)
                          br == Git(r.binaryOk, f2, loc.path,
                                    GitBranchDeleteStatus(f2, loc.path,
                                                          branch_name, merged))
                          e3 == Event("branch -d", br.status, PathExists(f2, wt))
                      IN  IF br.raised # "none"
                          THEN [ Outcome(f2, br.raised, br.status)
                                   EXCEPT !.ev = << e1, e2, e3 >> ]
                          ELSE [ Outcome(Rmtree(f2, BranchRef(f2, loc.path,
                                                              branch_name)),
                                         "none", br.status)
                                   EXCEPT !.ev = << e1, e2, e3 >> ]

\* Text as the methods split it: a string is the sequence of its pieces,
\* and the marker "refs/heads/" is a piece of its own wherever it occurs.
Marker == "refs/heads/"

Text(s) == << s >>

\* str.split(sep): the pieces between the occurrences of sep
RECURSIVE StrSplit(_, _)
StrSplit(s, sep) ==
    IF s = << >> THEN << << >> >>
    ELSE LET rest == StrSplit(Tail(s), sep)
         IN  IF Head(s) = sep
             THEN << << >> >> \o rest
             ELSE << << Head(s) >> \o rest[1] >> \o Tail(rest)

\* Repository._split_branch_name: reference.split("refs/heads/")[1]
SplitBranchName(reference) ==
    LET parts == StrSplit(reference, Marker)
    IN  IF Len(parts) < 2
        THEN [ raised |-> "IndexError", value |-> << >> ]
        ELSE [ raised |-> "none", value |-> parts[2] ]

\* Repository.branches, from the output of "git ls-remote --heads" on: the
\* output is the sequence of its lines
RepoBranchesOf(result) ==
    IF result = << >> THEN [ raised |-> "none", value |-> << >> ]
    ELSE IF \E i \in 1..Len(result) : SplitBranchName(result[i]).raised # "none"
    THEN [ raised |-> "IndexError", value |-> << >> ]
    ELSE [ raised |-> "none",
           value  |-> [ i \in 1..Len(result) |-> SplitBranchName(result[i]).value ] ]

\* a set of records in some order
RECURSIVE SeqOf(_)
SeqOf(S) ==
    IF S = {} THEN << >>
    ELSE LET x == CHOOSE y \in S : TRUE IN << x >> \o SeqOf(S \ {x})

\* what "git worktree list --porcelain" prints for the clone at p: one
\* record per worktree, the clone's own first; a record is its lines, a
\* line the words a blank separates
GitWorktreeList(f, p) ==
    LET gitdir == GitDir(f, p)
        head   == f[Append(gitdir, "HEAD")]
        main   == IF IsBareClone(f, p)
                  THEN << << "worktree", p >>, << "bare" >> >>
                  ELSE IF head \in Branches
                  THEN << << "worktree", p >>, << "HEAD", "sha" >>,
                          << "branch", << Marker, head >> >> >>
                  ELSE << << "worktree", p >>, << "HEAD", "sha" >>,
                          << "detached" >> >>
        admins == { a \in DOMAIN f :
                      /\ Len(a) = Len(gitdir) + 2
                      /\ IsPrefix(Append(gitdir, "worktrees"), a)
                      /\ PathExists(f, Append(a, "HEAD")) }
    IN  << main >> \o
        SeqOf({ << << "worktree", Append(Parent(p), a[Len(a)]) >>,
                   << "HEAD", "sha" >>,
                   << "branch", << Marker, f[Append(a, "HEAD")] >> >> >>
                : a \in admins })

\* the dictionary worktrees() builds of a record's lines
WorktreeKeys(rec) == { rec[i][1] : i \in 1..Len(rec) }

WorktreeValue(rec, key) ==
    rec[CHOOSE i \in 1..Len(rec) :
            /\ rec[i][1] = key
            /\ \A j \in 1..Len(rec) : rec[j][1] = key => j <= i][2]

\* Repository.worktrees
RepoWorktrees(f, r) ==
    LET p == Location(r.url).path
        g == Git(r.binaryOk, f, p, GitRepoStatus(f, p))
    IN  IF g.raised # "none" THEN [ raised |-> g.raised, value |-> << >> ]
        ELSE LET listing == GitWorktreeList(f, p)
             IN  IF \E i \in 1..Len(listing) : \E j \in 1..Len(listing[i]) :
                        Len(listing[i][j]) # 2
                 THEN [ raised |-> "ValueError", value |-> << >> ]
                 ELSE IF \E i \in 1..Len(listing) :
                        ~({ "worktree", "HEAD", "branch" } \subseteq WorktreeKeys(listing[i]))
                 THEN [ raised |-> "KeyError", value |-> << >> ]
                 ELSE IF \E i \in 1..Len(listing) :
                        SplitBranchName(WorktreeValue(listing[i], "branch")).raised # "none"
                 THEN [ raised |-> "IndexError", value |-> << >> ]
                 ELSE [ raised |-> "none",
                        value  |-> [ i \in 1..Len(listing) |->
                            [ path   |-> WorktreeValue(listing[i], "worktree"),
                              head   |-> WorktreeValue(listing[i], "HEAD"),
                              branch |-> SplitBranchName(
                                  WorktreeValue(listing[i], "branch")).value ] ] ]

\* exit status of "git pull" in the directory wt below the clone at p: a
\* linked worktree needs its record in the clone and a branch checked out
GitWorktreePullStatus(f, p, wt, ok) ==
    IF PathExists(f, Append(wt, ".git")) /\ f[Append(wt, ".git")] = "gitdir"
    THEN IF /\ ok
            /\ PathExists(f, Append(WorktreeAdmin(f, p, wt), "HEAD"))
            /\ f[Append(WorktreeAdmin(f, p, wt), "HEAD")] \in Branches
         THEN 0 ELSE 1
    ELSE GitPullStatus(f, wt, ok)

\* Repository.update_worktree: a pull in the worktree of the branch
RepoUpdateWorktree(f, r, branch_name, pullOk) ==
    LET loc == Location(r.url)
        wt  == WorktreePath(loc, branch_name)
        g   == Git(r.binaryOk, f, wt, GitWorktreePullStatus(f, loc.path, wt, pullOk))
    IN  [ Outcome(f, g.raised, g.status)
            EXCEPT !.ev = << Event("pull", g.status, PathExists(f, wt)) >> ]

-----------------------------------------------------------------------------
(* The state machine: a caller that makes one call after another.          *)

\* what the caller can tell of a call: its outcome o on the tree f, and what
\* held of the location just before it
Report(op, r, arg, name, f, o) ==
    [ op        |-> op,
      url       |-> r.url,
      bare      |-> r.bare,
      arg       |-> arg,
      name      |-> name,
      ev        |-> o.ev,
      raised    |-> o.raised,
      message   |-> o.message,
      status    |-> o.status,
      ret       |-> o.ret,
      created   |-> o.created,
      removed   |-> o.removed,
      preExists |-> LocExists(f, Location(r.url)),
      preReady  |-> IsReady(f, r),
      preEmpty  |-> DOMAIN f = { << >> },
      lost      |-> DOMAIN f \ DOMAIN o.fs ]

Init ==
    /\ fs = [ p \in { << >> } |-> "dir" ]
    /\ repo = NoRepo
    /\ procs = << >>
    /\ out = NoOutput
    /\ last = [ op |-> "none", url |-> NoneVal, bare |-> FALSE, arg |-> FALSE,
                name |-> NoneVal, ev |-> << >>,
                raised |-> "none", message |-> NoneVal, status |-> "none",
                ret |-> FALSE, created |-> FALSE, removed |-> FALSE,
                preExists |-> FALSE, preReady |-> FALSE, preEmpty |-> TRUE,
                lost |-> {} ]

\* repo = setup_repository(working_directory, url, binary, bare, clone)
SetupRepository(url, binaryOk, bare, clone, remoteOk) ==
    LET r == [ url |-> url, bare |-> bare, binaryOk |-> binaryOk,
               created |-> FALSE ]
        o == SetupRepositoryOutcome(fs, url, binaryOk, bare, clone, remoteOk)
    IN  /\ fs' = o.fs
        /\ repo' = IF o.raised = "none" THEN [ r EXCEPT !.created = o.created ]
                   ELSE repo
        /\ last' = Report("setup_repository", r, clone, NoneVal, fs, o)
        /\ UNCHANGED <<procs, out>>

\* repo.location.create()
Create ==
    /\ repo # NoRepo
    /\ LET c == LocCreate(fs, Location(repo.url))
       IN  /\ fs' = c.fs
           /\ last' = Report("create", repo, FALSE, NoneVal, fs,
                             [ Outcome(c.fs, "none", "none")
                                 EXCEPT !.ret = c.ret, !.ev = << CreateEvent(c) >> ])
    /\ UNCHANGED <<repo, procs, out>>

\* repo.clone(bare)
Clone(bare, remoteOk) ==
    /\ repo # NoRepo
    /\ LET o == RepoClone(fs, repo, bare, remoteOk)
       IN  /\ fs' = o.fs
           /\ repo' = [ repo EXCEPT !.created = o.created ]
           /\ last' = Report("clone", repo, bare, NoneVal, fs, o)
    /\ UNCHANGED <<procs, out>>

\* repo.update_to(reference)
UpdateTo(reference, checkoutOk, pullOk) ==
    /\ repo # NoRepo
    /\ LET o == RepoUpdateTo(fs, repo, reference, checkoutOk, pullOk)
       IN  /\ fs' = o.fs
           /\ last' = Report("update_to", repo, FALSE, reference, fs, o)
    /\ UNCHANGED <<repo, procs, out>>

\* repo.export(destination)
Export(ok) ==
    /\ repo # NoRepo
    /\ LET o == RepoExport(fs, repo, ok)
       IN  /\ fs' = o.fs
           /\ last' = Report("export", repo, FALSE, NoneVal, fs, o)
    /\ UNCHANGED <<repo, procs, out>>

\* repo.clean(thorough)
Clean(thorough, ok) ==
    /\ repo # NoRepo
    /\ LET o == RepoClean(fs, repo, thorough, ok)
       IN  /\ fs' = o.fs
           /\ last' = Report("clean", repo, thorough, NoneVal, fs, o)
    /\ UNCHANGED <<repo, procs, out>>

\* repo.add_worktree(branch_name)
AddWorktree(branch_name) ==
    /\ repo # NoRepo
    /\ LET o == RepoAddWorktree(fs, repo, branch_name)
       IN  /\ fs' = o.fs
           /\ last' = Report("add_worktree", repo, FALSE, branch_name, fs, o)
    /\ UNCHANGED <<repo, procs, out>>

\* repo.remove_worktree(branch_name)
RemoveWorktree(branch_name, merged) ==
    /\ repo # NoRepo
    /\ LET o == RepoRemoveWorktree(fs, repo, branch_name, merged)
       IN  /\ fs' = o.fs
           /\ last' = Report("remove_worktree", repo, FALSE, branch_name, fs, o)
    /\ UNCHANGED <<repo, procs, out>>

\* repo.update_worktree(branch_name)
UpdateWorktree(branch_name, pullOk) ==
    /\ repo # NoRepo
    /\ LET o == RepoUpdateWorktree(fs, repo, branch_name, pullOk)
       IN  /\ fs' = o.fs
           /\ last' = Report("update_worktree", repo, FALSE, branch_name, fs, o)
    /\ UNCHANGED <<repo, procs, out>>

\* every call the caller can make on the repositories of urls: update_to
\* with the references refs, the worktree methods with the branches bs; a
\* branch_name is any string, the URLs among them
Calls(urls, bs, refs) ==
    \/ \E url \in urls, binaryOk, bare \in BOOLEAN :
          SetupRepository(url, binaryOk, bare, FALSE, FALSE)
    \/ \E url \in urls, binaryOk, bare, remoteOk \in BOOLEAN :
          SetupRepository(url, binaryOk, bare, TRUE, remoteOk)
    \/ Create
    \/ \E bare, remoteOk \in BOOLEAN : Clone(bare, remoteOk)
    \/ \E reference \in refs, checkoutOk, pullOk \in BOOLEAN :
          UpdateTo(reference, checkoutOk, pullOk)
    \/ \E ok \in BOOLEAN : Export(ok)
    \/ \E thorough, ok \in BOOLEAN : Clean(thorough, ok)
    \/ \E branch_name \in bs \cup urls : AddWorktree(branch_name)
    \/ \E branch_name \in bs \cup urls, merged \in BOOLEAN :
          RemoveWorktree(branch_name, merged)
    \/ \E branch_name \in bs \cup urls, pullOk \in BOOLEAN :
          UpdateWorktree(branch_name, pullOk)

\* several repositories, each used on origin's default branch
Next == Calls(Urls, {DefaultBranch}, {DefaultBranch})

Spec == Init /\ [][Next]_vars

\* one repository, used on every branch of origin
NextWorktrees == Calls({UrlTable[1]}, Branches, Branches \cup Tags)

SpecWorktrees == Init /\ [][NextWorktrees]_vars

-----------------------------------------------------------------------------
(* Several processes on one location.  Each runs location.create() or      *)
(* repo.clone() of its own Repository object on the same URL, one system   *)
(* call or git command at a time; nothing orders the processes.            *)

Procs == 1..NumProcs

SharedLoc == Location(UrlTable[1])

InitConcurrent ==
    /\ fs = [ p \in { << >> } |-> "dir" ]
    /\ repo = NoRepo
    /\ last = [ op |-> "none" ]
    /\ out = NoOutput
    /\ procs \in [ Procs -> { [ prog |-> g, pc |-> "exists", created |-> FALSE,
                                raised |-> "none", cloned |-> FALSE ]
                              : g \in { "create", "clone" } } ]

\* where a process goes on when location.create() has returned
AfterCreate(prog) == IF prog = "create" THEN "done" ELSE "git"

\* RepositoryLocation.create: the test "if self.exists"
ExistsStep(p) ==
    /\ procs[p].pc = "exists"
    /\ procs' = [ procs EXCEPT ![p].pc =
                     IF LocExists(fs, SharedLoc)
                     THEN AfterCreate(procs[p].prog) ELSE "mkdir" ]
    /\ UNCHANGED <<fs, repo, last, out>>

\* RepositoryLocation.create: self.path.mkdir(...) and "return True"; in
\* clone(), the result is stored in self.created
MkdirStep(p) ==
    /\ procs[p].pc = "mkdir"
    /\ LET m == PathMkdirStep(fs, SharedLoc.path)
       IN  /\ fs' = m.fs
           /\ procs' = [ procs EXCEPT ![p] =
                 IF m.raised # "none"
                 THEN [ @ EXCEPT !.pc = "done", !.raised = m.raised ]
                 ELSE IF m.done
                 THEN [ @ EXCEPT !.pc = AfterCreate(procs[p].prog), !.created = TRUE ]
                 ELSE @ ]
    /\ UNCHANGED <<repo, last, out>>

\* Repository.clone: the clone subcommand, and the choice of the handler
GitCloneStep(p, remoteOk) ==
    /\ procs[p].pc = "git"
    /\ LET path == SharedLoc.path
           g    == Git(TRUE, fs, path, GitCloneStatus(fs, path, remoteOk))
       IN  /\ fs' = IF g.raised = "none" THEN GitCloneInto(fs, path, FALSE) ELSE fs
           /\ procs' = [ procs EXCEPT ![p] =
                 IF g.raised = "none"
                 THEN [ @ EXCEPT !.pc = "done", !.cloned = TRUE ]
                 ELSE IF g.raised = "OSError"
                 THEN [ @ EXCEPT !.pc = "done", !.raised = "OSError" ]
                 ELSE IF procs[p].created
                 THEN [ @ EXCEPT !.pc = "rollback" ]
                 ELSE [ @ EXCEPT !.pc = "done", !.raised = "RepositoryError" ] ]
    /\ UNCHANGED <<repo, last, out>>

\* Repository.clone: self.location.remove() and "raise RepositoryError"
RollbackStep(p) ==
    /\ procs[p].pc = "rollback"
    /\ LET rm == LocRemove(fs, SharedLoc)
       IN  /\ fs' = rm.fs
           /\ procs' = [ procs EXCEPT ![p].pc = "done",
                                      ![p].raised = IF rm.raised = "none"
                                                    THEN "RepositoryError"
                                                    ELSE rm.raised ]
    /\ UNCHANGED <<repo, last, out>>

NextConcurrent ==
    \E p \in Procs :
        \/ ExistsStep(p)
        \/ MkdirStep(p)
        \/ \E remoteOk \in BOOLEAN : GitCloneStep(p, remoteOk)
        \/ RollbackStep(p)

SpecConcurrent == InitConcurrent /\ [][NextConcurrent]_vars

-----------------------------------------------------------------------------
(* branches() on the outputs git can hand it.  A line of "git ls-remote     *)
(* --heads" is "<sha>\trefs/heads/<name>"; the lines drawn here are all the *)
(* texts of up to MaxLineLen pieces, so that lines without the marker and   *)
(* branch names that contain it are among them.                            *)

LinePieces == { "5d7a\t", Marker, "master" }

RECURSIVE SeqsUpTo(_, _)
SeqsUpTo(S, n) ==
    IF n = 0 THEN { << >> }
    ELSE LET shorter == SeqsUpTo(S, n - 1)
         IN  shorter \cup { Append(q, x) : q \in shorter, x \in S }

Lines == SeqsUpTo(LinePieces, MaxLineLen) \ { << >> }

LsRemoteOutputs == SeqsUpTo(Lines, MaxLines)

InitBranches ==
    /\ fs = [ p \in { << >> } |-> "dir" ]
    /\ repo = NoRepo
    /\ procs = << >>
    /\ last = [ op |-> "none" ]
    /\ out \in { [ op |-> "ls-remote", result |-> o ] : o \in LsRemoteOutputs }

\* repo.branches() on that output
BranchesCall ==
    /\ out.op = "ls-remote"
    /\ out' = [ op |-> "branches", result |-> out.result,
                ret |-> RepoBranchesOf(out.result) ]
    /\ UNCHANGED <<fs, repo, last, procs>>

NextBranches == BranchesCall

SpecBranches == InitBranches /\ [][NextBranches]_vars

-----------------------------------------------------------------------------
(* Properties *)

\* the calls that run Repository.clone: clone() itself, and the constructor
\* when asked to clone a repository that is not ready
CloneOps == { "clone", "setup_repository" }

LastLoc == Location(last.url)

\* the shard directory workingDirectory/hash[0:2] of a location
Shard(loc) == SubSeq(loc.root_path, 1, 1)

\* C1: when the location's path did not exist before clone() and the clone
\* subcommand exits nonzero, clone() raises RepositoryError and the path
\* does not exist afterwards.
C1_RollbackWhenAbsent ==
    (last.op \in CloneOps /\ last.status = "nonzero" /\ ~last.preExists)
        => /\ last.raised = "RepositoryError"
           /\ ~LocExists(fs, LastLoc)

C1_Witness ==
    /\ last.op = "clone" /\ last.status = "nonzero" /\ ~last.preExists
    /\ last.raised = "RepositoryError" /\ last.created

\* C2: when the location's path existed before clone() and the clone
\* subcommand exits nonzero, clone() raises RepositoryError, the path still
\* exists, and the attempt removed nothing from the filesystem.
C2_NoRollbackWhenPreexisting ==
    (last.op \in CloneOps /\ last.status = "nonzero" /\ last.preExists)
        => /\ last.raised = "RepositoryError"
           /\ LocExists(fs, LastLoc)
           /\ ~last.removed
           /\ last.lost = {}

C2_Witness ==
    /\ last.op = "clone" /\ last.status = "nonzero" /\ last.preExists
    /\ last.raised = "RepositoryError" /\ ~last.created

\* C3: a failed clone leaves every directory that existed before the attempt
\* (the root_path container and its sibling worktrees among them) in place.
C3_FailedCloneKeepsPreexisting ==
    (last.op \in CloneOps /\ last.status = "nonzero") => last.lost = {}

\* C4: setup_repository with the default bare and clone arguments on an
\* empty working directory returns a Repository whose ready is True.
C4_SetupDefaultsReady ==
    (/\ last.op = "setup_repository" /\ last.raised = "none"
     /\ ~last.bare /\ ~last.arg /\ last.preEmpty)
        => IsReady(fs, repo)

C6_ThoroughCleanUnready ==
    (last.op = "clean" /\ last.arg /\ last.preReady)
        => /\ last.raised = "none"
           /\ Ready(fs, repo) = [ raised |-> "none", value |-> FALSE ]

C6_Witness ==
    /\ last.op = "clean" /\ last.arg /\ last.preReady /\ last.bare
    /\ last.raised = "none"

\* C7: create() on an existing path returns False and changes nothing;
\* create() on an absent path makes it exist and returns True; so of
\* consecutive create() calls only the first can return True and the later
\* ones leave the filesystem as it is.
C7_IdempotentCreate ==
    [][ last'.op = "create" =>
          /\ IF LocExists(fs, Location(last'.url))
             THEN ~last'.ret /\ fs' = fs
             ELSE last'.ret /\ LocExists(fs', Location(last'.url))
          /\ (last.op = "create" /\ last.url = last'.url)
                => (~last'.ret /\ fs' = fs) ]_vars

C7_Witness ==
    /\ last.op = "create" /\ last.preExists /\ ~last.ret /\ last.lost = {}
    /\ LocExists(fs, LastLoc)

\* C8: remove() deletes the location's directory tree and then removes the
\* shard directory workingDirectory/hash[0:2] when it has become empty; a
\* shard that still holds other repositories stays, without an error.
C8_RemoveDropsEmptyShard ==
    (last.removed /\ last.raised \in { "none", "RepositoryError" })
        => /\ ~PathExists(fs, LastLoc.root_path)
           /\ ~IsEmptyDir(fs, Shard(LastLoc))

\* C9: whenever the git subcommand of clone, update_to, clean(thorough=False)
\* or export exits nonzero, the call fails with RepositoryError.
C9_NonzeroExitRaisesRepositoryError ==
    (/\ last.op \in CloneOps \cup { "update_to", "clean", "export" }
     /\ last.status = "nonzero")
        => last.raised = "RepositoryError"

\* C10: the RepositoryError that clone() raises when the clone subcommand
\* exits nonzero has the subprocess's standard error output as its message.
C10_CloneErrorCarriesStderr ==
    (last.op \in CloneOps /\ last.status = "nonzero"
        /\ last.raised = "RepositoryError")
        => last.message = GitProcess(128).stderr


\* C11: on a ready repository, for a branch b of origin: after
\* add_worktree(b) succeeds, worktrees() has a record whose branch is b and
\* whose path is the worktree path of b; after remove_worktree(b) succeeds,
\* worktrees() has no record for b and the local branch b is gone.
C11_WorktreeRoundTrip ==
    LET wts == RepoWorktrees(fs, repo)
        b   == last.name
    IN  /\ (/\ last.op = "add_worktree" /\ last.raised = "none"
            /\ last.preReady /\ b \in Branches)
              => /\ wts.raised = "none"
                 /\ \E i \in 1..Len(wts.value) :
                       /\ wts.value[i].branch = Text(b)
                       /\ wts.value[i].path = WorktreePath(LastLoc, b)
        /\ (/\ last.op = "remove_worktree" /\ last.raised = "none"
            /\ last.preReady /\ b \in Branches)
              => /\ wts.raised = "none"
                 /\ \A i \in 1..Len(wts.value) : wts.value[i].branch # Text(b)
                 /\ ~PathExists(fs, BranchRef(fs, LastLoc.path, b))

\* the text that follows the marker on a line that has it
AfterMarker(line) ==
    LET k == CHOOSE i \in 1..Len(line) :
                 line[i] = Marker /\ \A j \in 1..(i - 1) : line[j] # Marker
    IN  SubSeq(line, k + 1, Len(line))

HasMarker(line) == \E i \in 1..Len(line) : line[i] = Marker

\* C12: for an output of n lines that each contain refs/heads/, branches()
\* returns exactly n names, the i-th being the text that follows the marker
\* on the i-th line; an empty output gives the empty list; a line without
\* the marker makes branches() fail instead of returning a list.
C12_BranchesParse ==
    out.op = "branches" =>
        LET o == out.result
        IN  /\ (\A i \in 1..Len(o) : HasMarker(o[i]))
                 => /\ out.ret.raised = "none"
                    /\ Len(out.ret.value) = Len(o)
                    /\ \A i \in 1..Len(o) : out.ret.value[i] = AfterMarker(o[i])
            /\ (\E i \in 1..Len(o) : ~HasMarker(o[i]))
                 => out.ret.raised # "none"

AllRun(prog) == \A p \in Procs : procs[p].prog = prog

AllDone == \A p \in Procs : procs[p].pc = "done"

\* C13: for every interleaving of processes that call create() on the same
\* absent location, no call fails with an error and the path exists once
\* all calls have returned.
C13_ConcurrentCreateSafe ==
    AllRun("create") =>
        /\ \A p \in Procs : procs[p].raised = "none"
        /\ AllDone => LocExists(fs, SharedLoc)

C13_Witness ==
    /\ AllRun("create") /\ AllDone
    /\ \A p \in Procs : procs[p].created
    /\ LocExists(fs, SharedLoc)

\* C14: for every interleaving of processes that call create() on the same
\* absent location, at most one call returns True.
C14_OneCreator ==
    AllRun("create") =>
        Cardinality({ p \in Procs : procs[p].pc = "done" /\ procs[p].created }) <= 1

\* C19: when the processes run clone() on the same absent location and the
\* clone subcommand of one succeeds, the location exists after all of them
\* have finished.
C19_RollbackSparesOtherClone ==
    (/\ AllRun("clone") /\ AllDone
     /\ \E p \in Procs : procs[p].cloned)
        => LocExists(fs, SharedLoc)

\* the entries of a call's order that are git commands
GitCommands ==
    { "clone", "rev-parse", "checkout", "pull", "reset", "checkout-index",
      "worktree add", "worktree prune", "branch -d" }

\* entry i of the last call's order comes after its location.create()
AfterCreateCall(i) == \E j \in 1..(i - 1) : last.ev[j].cmd = "create"

\* a clone failure was handled: the clone subcommand exited nonzero
CloneFailureHandled ==
    \E i \in 1..Len(last.ev) :
        last.ev[i].cmd = "clone" /\ last.ev[i].status = "nonzero"

C16_UpdateToOrder ==
    last.op = "update_to" =>
        /\ Len(last.ev) \in 1..2
        /\ last.ev[1].cmd = "checkout"
        /\ Len(last.ev) = 2 <=> last.ev[1].status = "zero"
        /\ Len(last.ev) = 2 => last.ev[2].cmd = "pull"
        /\ (Len(last.ev) = 2 /\ last.ev[2].status # "zero")
              => /\ last.raised # "none"
                 /\ last.lost = {} /\ ~last.removed
                 /\ fs[Append(GitDir(fs, LastLoc.path), "HEAD")] = last.name
                 /\ IsReady(fs, repo) = last.preReady

C16_Witness ==
    /\ last.op = "update_to" /\ Len(last.ev) = 2
    /\ last.ev[1].status = "zero" /\ last.ev[2].status = "nonzero"
    /\ last.raised = "CalledProcessError"
    /\ fs[Append(GitDir(fs, LastLoc.path), "HEAD")] = last.name
    /\ last.name # DefaultBranch

\* the steps of remove_worktree, in the order of the source
RemoveWorktreeSteps == << "rmtree", "worktree prune", "branch -d" >>

Succeeded(e) == e.status \in { "ok", "zero" }

\* C17: remove_worktree deletes the worktree directory, then prunes the
\* worktree records, then deletes the local branch; prune is never issued
\* while the worktree directory still exists; a failure of any step stops
\* the sequence, so that no later step runs.
C17_RemoveWorktreeOrder ==
    last.op = "remove_worktree" =>
        /\ Len(last.ev) \in 1..3
        /\ \A i \in 1..Len(last.ev) :
              /\ last.ev[i].cmd = RemoveWorktreeSteps[i]
              /\ last.ev[i].cmd = "worktree prune" => ~last.ev[i].wtExists
              /\ ~Succeeded(last.ev[i]) => (i = Len(last.ev) /\ last.raised # "none")
        /\ last.raised = "none" => Len(last.ev) = 3

C17_Witness ==
    /\ last.op = "remove_worktree" /\ Len(last.ev) = 2
    /\ last.ev[1].cmd = "rmtree" /\ Succeeded(last.ev[1])
    /\ last.ev[2].cmd = "worktree prune" /\ ~Succeeded(last.ev[2])
    /\ last.name \in Branches /\ last.raised # "none"

\* the methods that work in the worktree directory of a branch
WorktreeOps == { "add_worktree", "update_worktree", "remove_worktree" }

\* C18: for every URL and every branch name, worktree_path(branch) differs
\* from location.path, so that the worktree methods never work in or delete
\* the canonical clone directory.
C18_WorktreeNeverCanonical ==
    last.op \in WorktreeOps =>
        /\ WorktreePath(LastLoc, last.name) # LastLoc.path
        /\ LastLoc.path \notin last.lost

\* C20: if the path did not exist before clone() and the clone subprocess
\* cannot be started at all, the directory the attempt created does not
\* exist after clone() has raised.
C20_RollbackWhenNotStarted ==
    (/\ last.op \in CloneOps /\ ~last.preExists /\ last.raised # "none"
     /\ \E i \in 1..Len(last.ev) :
           last.ev[i].cmd = "clone" /\ last.ev[i].status = "notrun")
        => ~LocExists(fs, LastLoc)

=============================================================================
